---- MODULE Spec2Model ----
(***************************************************************************)
(* GPU node inventory tool: Node (node.py), EtcdClient (etcd_client.py),   *)
(* NodeManager (node_manager.py) and the CLI entry point                   *)
(* (node_validator.py).                                                    *)
(*                                                                         *)
(* A Python dict is a sequence of <<key, value>> pairs with distinct keys, *)
(* in insertion order.  A Python value is written as a string: "a", "b"    *)
(* and "1" are the strs of these characters, "int(1)" is the integer 1,    *)
(* "float('nan')" the float NaN object of the YAML loader, CallerNaN a NaN  *)
(* that is another object, and "('a',)" a tuple.  A YAML document          *)
(* holds scalars, which are texts: yaml.dump writes a value as its scalar  *)
(* and yaml.safe_load builds a value from a scalar.                        *)
(***************************************************************************)
EXTENDS Integers, Sequences, FiniteSets, TLC

VARIABLES
    data,               \* mapping a Node is constructed from (pure-function specification)
    file,               \* the YAML file given to the running command
    prev,               \* the fully accepted put_nodes run before this command
    node,               \* Node under comparison (pure-function specification)
    other_data,         \* the mapping it is compared with
    result,             \* what compare_with returned
    store,              \* etcd: namespaced key -> stored text
    pc,                 \* position of the running command
    op,                 \* the command: put / get / validate
    nodes,              \* the batch load_nodes_from_file returned
    i,                  \* index of the next record of the batch
    success_count,      \* put_nodes tally
    pass_count,         \* validate_nodes tallies
    conditional_count,
    fail_count,
    requests,           \* store requests issued by the running command, in order
    results,            \* per-record outcome of the running command, in order
    last_resp,          \* response of the most recent store request
    last_ret,           \* what put_node / get_node returned for it
    exit_code,          \* process exit status (-1 while running)
    cmds                \* commands run so far

vars == <<data, file, prev, node, other_data, result, store, pc, op, nodes, i, success_count,
          pass_count, conditional_count, fail_count, requests, results,
          last_resp, last_ret, exit_code, cmds>>

(***************************************************************************)
(* Bounds                                                                  *)
(***************************************************************************)
MaxFields == 3          \* most fields of a declared record (compare spec)
MaxBatch == 2           \* most records of a batch file
MaxCommands == 1        \* commands run after the first one

(***************************************************************************)
(* Dicts                                                                   *)
(***************************************************************************)
Keys == {"hostname", "ip", "gpu_type", "rack"}

Int1 == "int(1)"

\* SafeConstructor.nan_value: the one float object yaml.safe_load returns for
\* every .nan scalar
NaN == "float('nan')"

\* a float NaN that is another object (computed by the caller of Node)
CallerNaN == "float('nan'), not nan_value"

NaNs == {NaN, CallerNaN}

Tuple == "('a',)"

\* values yaml.safe_load gives the fields: two strs and the float NaN
Values == {"a", "b", NaN}

\* x == y of Python: a NaN is unequal to every value, itself included; an
\* int is unequal to the str of its digits
PyEq(x, y) == x = y /\ x \notin NaNs /\ y \notin NaNs

\* x is y or x == y, as the comparison of two containers compares their
\* items: the test of identity comes first, so a NaN equals the same object
IsOrEq(x, y) == x = y \/ PyEq(x, y)

\* str(x), as an f-string formats x
format(x) == IF x = Int1 THEN "1" ELSE IF x \in NaNs THEN "nan" ELSE x

\* the values field k takes in the mappings: rack, the field outside the
\* typed ones, is the one that may hold a float
FieldValues(k) == IF k = "rack" THEN Values ELSE Values \ NaNs

\* str ordering of the keys, as sorted() sees them
KeyOrder == <<"gpu_type", "hostname", "ip", "rack">>

DictKeys(d) == {d[n][1] : n \in 1..Len(d)}

\* k in d
HasKey(d, k) == k \in DictKeys(d)

\* d[k]
Lookup(d, k) == d[CHOOSE n \in 1..Len(d) : d[n][1] = k][2]

\* d.get(k, default)
DictGet(d, k, default) == IF HasKey(d, k) THEN Lookup(d, k) ELSE default

IsDict(d) == \A m, n \in 1..Len(d) : d[m][1] = d[n][1] => m = n

\* dict == dict: same keys, and under each key the same object or equal
\* values, whatever the insertion order
DictEq(d, e) ==
    /\ DictKeys(d) = DictKeys(e)
    /\ \A k \in DictKeys(d) : IsOrEq(Lookup(d, k), Lookup(e, k))

RECURSIVE SeqsOver(_, _)
SeqsOver(S, n) ==
    IF n = 0 THEN {<<>>}
    ELSE LET shorter == SeqsOver(S, n - 1)
         IN  shorter \cup {Append(s, x) : s \in {t \in shorter : Len(t) = n - 1}, x \in S}

\* every dict over Keys and Values with at most n entries, in every
\* insertion order
Dicts(n) ==
    {d \in SeqsOver({kv \in Keys \X Values : kv[2] \in FieldValues(kv[1])}, n) :
        IsDict(d)}

\* every mapping a Node may be constructed from: a dict of Dicts, or one
\* with an integer or digit-str hostname, or with a NaN of the caller's or a
\* tuple under rack
MappingItems ==
    {kv \in Keys \X Values : kv[2] \in FieldValues(kv[1])}
        \cup {<<"hostname", Int1>>, <<"hostname", "1">>, <<"rack", CallerNaN>>,
              <<"rack", Tuple>>}

Mappings(n) == {d \in SeqsOver(MappingItems, n) : IsDict(d)}

(***************************************************************************)
(* Node  (gpu_node_management/node.py)                                     *)
(***************************************************************************)
\* faulty variant: the defaults are written into the mapping (setdefault)
Node_setdefault(d) ==
    [hostname           |-> DictGet(d, "hostname", ""),
     ip                 |-> DictGet(d, "ip", ""),
     gpu_type           |-> DictGet(d, "gpu_type", ""),
     bios_version       |-> DictGet(d, "bios_version", ""),
     nvidia_driver      |-> DictGet(d, "nvidia_driver", ""),
     cuda_version       |-> DictGet(d, "cuda_version", ""),
     os                 |-> DictGet(d, "os", ""),
     kernel             |-> DictGet(d, "kernel", ""),
     secure_boot        |-> DictGet(d, "secure_boot", FALSE),
     monitoring_enabled |-> DictGet(d, "monitoring_enabled", FALSE),
     tags               |-> DictGet(d, "tags", <<>>),
     raw_data           |-> IF HasKey(d, "hostname") THEN d
                            ELSE Append(d, <<"hostname", "">>)]

Node(d) ==
    [hostname           |-> DictGet(d, "hostname", ""),
     ip                 |-> DictGet(d, "ip", ""),
     gpu_type           |-> DictGet(d, "gpu_type", ""),
     bios_version       |-> DictGet(d, "bios_version", ""),
     nvidia_driver      |-> DictGet(d, "nvidia_driver", ""),
     cuda_version       |-> DictGet(d, "cuda_version", ""),
     os                 |-> DictGet(d, "os", ""),
     kernel             |-> DictGet(d, "kernel", ""),
     secure_boot        |-> DictGet(d, "secure_boot", FALSE),
     monitoring_enabled |-> DictGet(d, "monitoring_enabled", FALSE),
     tags               |-> DictGet(d, "tags", <<>>),
     raw_data           |-> d]

to_dict(self) == self.raw_data

NoResult == [status |-> "NONE", extra_keys |-> <<>>, value_mismatches |-> <<>>]

\* faulty variant: a missing key is recorded but leaves the status alone
compare_item_missing_keeps_status(res, k, v, other) ==
    IF ~HasKey(other, k)
    THEN [res EXCEPT !.extra_keys = Append(@, k)]
    ELSE IF ~PyEq(Lookup(other, k), v)
    THEN [res EXCEPT !.status = "FAIL",
                     !.value_mismatches = Append(@, <<k, v, Lookup(other, k)>>)]
    ELSE res

\* faulty variant: nothing more is recorded once the status is FAIL
compare_item_stop_at_fail(res, k, v, other) ==
    IF res.status = "FAIL" THEN res
    ELSE IF ~HasKey(other, k)
    THEN [res EXCEPT !.status = "CONDITIONAL",
                     !.extra_keys = Append(@, k)]
    ELSE IF ~PyEq(Lookup(other, k), v)
    THEN [res EXCEPT !.status = "FAIL",
                     !.value_mismatches = Append(@, <<k, v, Lookup(other, k)>>)]
    ELSE res

\* one iteration of the loop of compare_with over the item (k, v)
compare_item(res, k, v, other) ==
    IF ~HasKey(other, k)
    THEN [res EXCEPT !.status = "CONDITIONAL",
                     !.extra_keys = Append(@, k)]
    ELSE IF ~PyEq(Lookup(other, k), v)
    THEN [res EXCEPT !.status = "FAIL",
                     !.value_mismatches = Append(@, <<k, v, Lookup(other, k)>>)]
    ELSE res

RECURSIVE compare_loop(_, _, _, _)
compare_loop(items, n, other, res) ==
    IF n > Len(items) THEN res
    ELSE compare_loop(items, n + 1, other,
                      compare_item(res, items[n][1], items[n][2], other))

\* faulty variant: a key of other_data the node does not declare is reported too
compare_with_symmetric(self, other) ==
    LET res == compare_loop(self.raw_data, 1, other,
                   [status |-> "PASS", extra_keys |-> <<>>, value_mismatches |-> <<>>])
    IN  IF DictKeys(other) \subseteq DictKeys(self.raw_data) THEN res
        ELSE [res EXCEPT !.status = "CONDITIONAL"]

compare_with(self, other) ==
    compare_loop(self.raw_data, 1, other,
                 [status |-> "PASS", extra_keys |-> <<>>, value_mismatches |-> <<>>])

\* faulty variant: a comparison that does not pass patches the record with
\* the mapping it was given, and fills the keys that mapping lacks
compare_with_effect_patch(self, other) ==
    IF compare_with(self, other).status = "PASS"
    THEN [self |-> self, other_data |-> other]
    ELSE [self |-> Node(other),
          other_data |-> other \o SelectSeq(self.raw_data,
                                            LAMBDA kv : ~HasKey(other, kv[1]))]

\* the record and the mapping as compare_with leaves them: the loop reads
\* self._raw_data and other_data and assigns to (and appends to the lists
\* of) the local result only
compare_with_effect(self, other) == [self |-> self, other_data |-> other]

(***************************************************************************)
(* Texts and their encodings                                               *)
(*                                                                         *)
(* A text is what a key of the store holds: kind "map" is a YAML mapping   *)
(* (doc: its items in the order written), "int" a YAML scalar that parses  *)
(* to an int, "null" an empty YAML document, "bad_yaml" characters that    *)
(* are no YAML, "bad_utf8" bytes that are no UTF-8.                        *)
(***************************************************************************)
Text(kind, doc) == [kind |-> kind, doc |-> doc]

Absent == Text("absent", <<>>)

\* the scalar yaml.dump writes for the value v: a str that would read back
\* as another type is quoted, a tuple gets the python tag
represent(v) ==
    CASE v = Int1  -> "1"
      [] v = "1"   -> "'1'"
      [] v = ""    -> "''"
      [] v \in NaNs -> ".nan"
      [] v = Tuple -> "!!python/tuple"
      [] OTHER     -> v

\* the value yaml.safe_load builds from the scalar s
construct(s) ==
    CASE s = "1"    -> Int1
      [] s = "'1'"  -> "1"
      [] s = "''"   -> ""
      [] s = ".nan" -> NaN
      [] OTHER      -> s

\* yaml.dump(data): block mapping, keys sorted (sort_keys defaults to True)
yaml_dump(d) ==
    LET ks == SelectSeq(KeyOrder, LAMBDA k : HasKey(d, k))
    IN  Text("map", [n \in 1..Len(ks) |-> <<ks[n], represent(Lookup(d, ks[n]))>>])

\* faulty variant: serializes the typed fields only
to_yaml_typed_fields(self) ==
    yaml_dump(<<<<"hostname", self.hostname>>, <<"ip", self.ip>>,
                <<"gpu_type", self.gpu_type>>>>)

to_yaml(self) == yaml_dump(self.raw_data)

Ret(kind, val) == [kind |-> kind, val |-> val]

NoRet == Ret("none", <<>>)

\* yaml.safe_load(text): the parsed value, or YAMLError.  The safe loader
\* has no constructor for a python tag (ConstructorError, a YAMLError); every
\* .nan scalar gives the one object nan_value, whatever NaN was dumped
safe_load(text) ==
    CASE text.kind = "map" /\ \E n \in 1..Len(text.doc) :
                                  text.doc[n][2] = "!!python/tuple"
                                -> Ret("YAMLError", <<>>)
      [] text.kind = "map"      -> Ret("dict", [n \in 1..Len(text.doc) |->
                                       <<text.doc[n][1], construct(text.doc[n][2])>>])
      [] text.kind = "int"      -> Ret("int", <<>>)
      [] text.kind = "null"     -> Ret("None", <<>>)
      [] OTHER                  -> Ret("YAMLError", <<>>)

\* base64: valid is whether b64decode accepts the characters (their padding),
\* s what they decode to
b64_encode(s) == [valid |-> TRUE, s |-> s]

NoWire == [valid |-> TRUE, s |-> Absent]

(***************************************************************************)
(* EtcdClient  (gpu_node_management/etcd_client.py)                        *)
(***************************************************************************)
Hostnames == {"", "a", "b", "1"}

node_key(hostname) == "/gpu/nodes/" \o format(hostname)

StoreKeys == {node_key(h) : h \in Hostnames}

\* a response of requests.post: exc is whether it raised RequestException
Response(exc, status_code, kvs, value) ==
    [exc |-> exc, status_code |-> status_code, kvs |-> kvs, value |-> value]

NoResponse == Response(FALSE, 0, "missing", NoWire)

\* faulty variant: the key is the namespace alone, whatever the hostname
put_payload_shared_key(nd) ==
    [url |-> "/v3/kv/put", key |-> b64_encode(node_key("")),
     value |-> b64_encode(to_yaml(nd))]

put_payload(nd) ==
    [url |-> "/v3/kv/put", key |-> b64_encode(node_key(nd.hostname)),
     value |-> b64_encode(to_yaml(nd))]

get_payload(hostname) ==
    [url |-> "/v3/kv/range", key |-> b64_encode(node_key(hostname)),
     value |-> NoWire]

\* faulty variant: every answered request counts as stored
put_node_any_status(nd, resp) ==
    IF resp.exc THEN Ret("False", <<>>) ELSE Ret("True", <<>>)

\* faulty variant: the RequestException is not caught
put_node_uncaught(nd, resp) ==
    IF resp.exc THEN Ret("RequestException", <<>>)
    ELSE IF resp.status_code = 200 THEN Ret("True", <<>>) ELSE Ret("False", <<>>)

\* what put_node returns when requests.post answers resp
put_node(nd, resp) ==
    IF resp.exc THEN Ret("False", <<>>)
    ELSE IF resp.status_code = 200 THEN Ret("True", <<>>) ELSE Ret("False", <<>>)

\* the record as put_node leaves it: put_node reads node.hostname and calls
\* node.to_yaml(), which reads _raw_data
put_node_effect(nd) == nd

\* what get_node returns (or raises) when requests.post answers resp
get_node(hostname, resp) ==
    IF resp.exc THEN Ret("None", <<>>)
    ELSE IF resp.status_code # 200 THEN Ret("None", <<>>)
    ELSE IF resp.kvs \in {"missing", "empty"} THEN Ret("None", <<>>)
    ELSE IF ~resp.value.valid THEN Ret("binascii.Error", <<>>)
    ELSE IF resp.value.s.kind = "bad_utf8" THEN Ret("UnicodeDecodeError", <<>>)
    ELSE LET parsed == safe_load(resp.value.s)
         IN  IF parsed.kind = "YAMLError" THEN Ret("None", <<>>) ELSE parsed

Raised(ret) == ret.kind \in {"binascii.Error", "UnicodeDecodeError", "TypeError",
                             "RequestException"}

(***************************************************************************)
(* The store behind requests.post: a request is either applied and         *)
(* answered 200, or refused with another status, or the transport raises.  *)
(* A refused put leaves the store as it was; when the transport raises,    *)
(* the put either never reached the store ("error") or was applied and its *)
(* answer was lost ("lost").                                               *)
(***************************************************************************)
PutOutcomes == {"ok", "refused", "error", "lost"}

RangeOutcomes == {"ok", "ok_no_kvs", "refused", "error"}

EtcdPutResponse(outcome) ==
    CASE outcome \in {"error", "lost"} -> Response(TRUE, 0, "missing", NoWire)
      [] outcome = "refused" -> Response(FALSE, 500, "missing", NoWire)
      [] OTHER               -> Response(FALSE, 200, "missing", NoWire)

EtcdPutStore(st, payload, outcome) ==
    IF outcome \in {"ok", "lost"}
    THEN [st EXCEPT ![payload.key.s] = payload.value.s]
    ELSE st

\* a range answer names the key's value in kvs; an empty kvs may be left out
EtcdRangeResponse(st, payload, outcome) ==
    CASE outcome = "error" -> Response(TRUE, 0, "missing", NoWire)
      [] outcome = "refused" -> Response(FALSE, 404, "missing", NoWire)
      [] outcome = "ok_no_kvs" ->
            IF st[payload.key.s] = Absent
            THEN Response(FALSE, 200, "missing", NoWire)
            ELSE Response(FALSE, 200, "present", b64_encode(st[payload.key.s]))
      [] OTHER ->
            IF st[payload.key.s] = Absent
            THEN Response(FALSE, 200, "empty", NoWire)
            ELSE Response(FALSE, 200, "present", b64_encode(st[payload.key.s]))

(***************************************************************************)
(* NodeManager  (gpu_node_management/node_manager.py)                      *)
(***************************************************************************)
\* node entries the batch files are made of
RecordPool ==
    { <<<<"hostname", "a">>, <<"ip", "a">>, <<"gpu_type", "a">>>>,
      <<<<"hostname", "b">>, <<"ip", "a">>>>,
      <<<<"ip", "b">>, <<"rack", "a">>>>,
      <<<<"rack", "b">>, <<"gpu_type", "b">>>> }

\* a YAML file: missing, unparsable, a document that is no mapping (a list, a
\* scalar, nothing), or a mapping with a list of node entries
File(kind, entries) == [kind |-> kind, entries |-> entries]

NoFile == File("none", <<>>)

Files ==
    {File("missing", <<>>), File("malformed", <<>>), File("not_mapping", <<>>)}
    \cup {File("ok", e) : e \in SeqsOver(RecordPool, MaxBatch)}

\* load_nodes_from_file lets an exception escape: data.get on a non-mapping
LoadRaises(f) == f.kind = "not_mapping"

\* faulty variant: a file that cannot be loaded gives one empty node entry
load_nodes_from_file_placeholder(f) ==
    IF f.kind = "ok"
    THEN [n \in 1..Len(f.entries) |-> Node(f.entries[n])]
    ELSE <<Node(<<>>)>>

load_nodes_from_file(f) ==
    IF f.kind = "ok"
    THEN [n \in 1..Len(f.entries) |-> Node(f.entries[n])]
    ELSE <<>>

Outcome(ret, status) == [ret |-> ret, status |-> status]

\* node.compare_with(stored_data) for whatever get_node returned
compare_stored(nd, stored) ==
    IF stored.kind = "dict" THEN compare_with(nd, stored.val)
    ELSE IF Len(nd.raw_data) = 0
    THEN [status |-> "PASS", extra_keys |-> <<>>, value_mismatches |-> <<>>]
    ELSE [status |-> "TypeError", extra_keys |-> <<>>, value_mismatches |-> <<>>]

StartCommand(name, f) ==
    /\ pc = "idle"
    /\ op' = name
    /\ file' = f
    /\ nodes' = load_nodes_from_file(f)
    /\ i' = 1
    /\ pc' = IF LoadRaises(f) THEN "failed"
             ELSE IF load_nodes_from_file(f) = <<>> THEN "done" ELSE "loop"
    /\ exit_code' = IF LoadRaises(f) THEN 1
                    ELSE IF load_nodes_from_file(f) = <<>> THEN 0 ELSE -1
    /\ UNCHANGED <<data, prev, node, other_data, result, store, success_count,
                   pass_count, conditional_count, fail_count, requests, results,
                   last_resp, last_ret, cmds>>

\* put_nodes up to its loop: no nodes loaded aborts the operation
put_nodes(f) == StartCommand("put", f)

\* validate_nodes up to its loop
validate_nodes(f) == StartCommand("validate", f)

\* faulty variant: the loop of put_nodes stops at the first failed put
put_nodes_step_abort ==
    /\ pc = "loop" /\ op = "put" /\ i <= Len(nodes)
    /\ \E outcome \in PutOutcomes :
         LET payload == put_payload(nodes[i])
             resp    == EtcdPutResponse(outcome)
             ret     == put_node(nodes[i], resp)
         IN  /\ store' = EtcdPutStore(store, payload, outcome)
             /\ requests' = Append(requests, payload)
             /\ last_resp' = resp
             /\ last_ret' = ret
             /\ results' = Append(results,
                    Outcome(ret, IF ret.kind = "True" THEN "STORED" ELSE "FAILED"))
             /\ success_count' = IF ret.kind = "True" THEN success_count + 1
                                 ELSE success_count
             /\ i' = IF ret.kind = "True" THEN i + 1 ELSE Len(nodes) + 1
             /\ UNCHANGED <<pc, exit_code>>
    /\ UNCHANGED <<data, file, prev, node, other_data, result, op, nodes, pass_count,
                   conditional_count, fail_count, cmds>>

\* faulty variant: the serialized record is appended to what the key holds
put_nodes_step_append ==
    /\ pc = "loop" /\ op = "put" /\ i <= Len(nodes)
    /\ \E outcome \in PutOutcomes :
         LET payload == put_payload(nodes[i])
             resp    == EtcdPutResponse(outcome)
             ret     == put_node(nodes[i], resp)
             key     == payload.key.s
         IN  /\ store' = IF outcome = "ok"
                         THEN [store EXCEPT ![key] = Text("map", @.doc \o payload.value.s.doc)]
                         ELSE store
             /\ requests' = Append(requests, payload)
             /\ last_resp' = resp
             /\ last_ret' = ret
             /\ results' = Append(results,
                    Outcome(ret, IF ret.kind = "True" THEN "STORED" ELSE "FAILED"))
             /\ success_count' = IF ret.kind = "True" THEN success_count + 1
                                 ELSE success_count
             /\ i' = i + 1
             /\ UNCHANGED <<pc, exit_code>>
    /\ UNCHANGED <<data, file, prev, node, other_data, result, op, nodes, pass_count,
                   conditional_count, fail_count, cmds>>

\* one iteration of the loop of put_nodes
put_nodes_step ==
    /\ pc = "loop" /\ op = "put" /\ i <= Len(nodes)
    /\ \E outcome \in PutOutcomes :
         LET payload == put_payload(nodes[i])
             resp    == EtcdPutResponse(outcome)
             ret     == put_node(nodes[i], resp)
         IN  /\ store' = EtcdPutStore(store, payload, outcome)
             /\ requests' = Append(requests, payload)
             /\ last_resp' = resp
             /\ last_ret' = ret
             /\ IF Raised(ret)
                THEN /\ pc' = "failed"
                     /\ exit_code' = 1
                     /\ UNCHANGED <<results, success_count, i>>
                ELSE /\ results' = Append(results,
                            Outcome(ret, IF ret.kind = "True" THEN "STORED" ELSE "FAILED"))
                     /\ success_count' = IF ret.kind = "True" THEN success_count + 1
                                         ELSE success_count
                     /\ i' = i + 1
                     /\ UNCHANGED <<pc, exit_code>>
             /\ nodes' = [nodes EXCEPT ![i] = put_node_effect(nodes[i])]
    /\ UNCHANGED <<data, file, prev, node, other_data, result, op, pass_count,
                   conditional_count, fail_count, cmds>>

\* the loop of put_nodes is over: the summary is logged and put_nodes returns
put_nodes_done ==
    /\ pc = "loop" /\ op = "put" /\ i > Len(nodes)
    /\ pc' = "done"
    /\ exit_code' = 0
    /\ UNCHANGED <<data, file, prev, node, other_data, result, store, op, nodes, i, success_count,
                   pass_count, conditional_count, fail_count, requests, results,
                   last_resp, last_ret, cmds>>

\* the tallies of validate_nodes after a record classified status
Tally(status) ==
    /\ pass_count' = IF status = "PASS" THEN pass_count + 1 ELSE pass_count
    /\ conditional_count' = IF status = "CONDITIONAL" THEN conditional_count + 1
                            ELSE conditional_count
    /\ fail_count' = IF status \in {"FAIL", "NOT_FOUND"} THEN fail_count + 1
                     ELSE fail_count

\* faulty variant: the record is uploaded before it is validated
validate_nodes_step_upload ==
    /\ pc = "loop" /\ op = "validate" /\ i <= Len(nodes)
    /\ LET payload == put_payload(nodes[i])
           resp    == EtcdPutResponse("ok")
           ret     == put_node(nodes[i], resp)
       IN  /\ store' = EtcdPutStore(store, payload, "ok")
           /\ requests' = Append(requests, payload)
           /\ last_resp' = resp
           /\ last_ret' = ret
           /\ results' = Append(results, Outcome(ret, "PASS"))
           /\ Tally("PASS")
           /\ i' = i + 1
    /\ UNCHANGED <<data, file, prev, node, other_data, result, pc, exit_code, op, nodes,
                   success_count, cmds>>

\* one iteration of the loop of validate_nodes; other_data is its local
\* stored_data once the iteration is over (no mapping when get_node gave none)
validate_nodes_step ==
    /\ pc = "loop" /\ op = "validate" /\ i <= Len(nodes)
    /\ \E outcome \in RangeOutcomes :
         LET payload == get_payload(nodes[i].hostname)
             resp    == EtcdRangeResponse(store, payload, outcome)
             ret     == get_node(nodes[i].hostname, resp)
             cmp     == compare_stored(nodes[i], ret)
             after   == IF ret.kind = "dict"
                        THEN compare_with_effect(nodes[i], ret.val)
                        ELSE [self |-> nodes[i], other_data |-> <<>>]
         IN  /\ requests' = Append(requests, payload)
             /\ last_resp' = resp
             /\ last_ret' = ret
             /\ nodes' = [nodes EXCEPT ![i] = after.self]
             /\ other_data' = after.other_data
             /\ IF Raised(ret) \/ (ret.kind # "None" /\ cmp.status = "TypeError")
                THEN /\ pc' = "failed"
                     /\ exit_code' = 1
                     /\ UNCHANGED <<results, pass_count, conditional_count,
                                    fail_count, i>>
                ELSE LET status == IF ret.kind = "None" THEN "NOT_FOUND"
                                   ELSE cmp.status
                     IN  /\ results' = Append(results, Outcome(ret, status))
                         /\ Tally(status)
                         /\ i' = i + 1
                         /\ UNCHANGED <<pc, exit_code>>
    /\ UNCHANGED <<data, file, prev, node, result, store, op, success_count, cmds>>

\* faulty variant: a batch with failed records is a process failure
validate_nodes_done_fail_exit ==
    /\ pc = "loop" /\ op = "validate" /\ i > Len(nodes)
    /\ pc' = "done"
    /\ exit_code' = IF fail_count > 0 THEN 1 ELSE 0
    /\ UNCHANGED <<data, file, prev, node, other_data, result, store, op, nodes, i, success_count,
                   pass_count, conditional_count, fail_count, requests, results,
                   last_resp, last_ret, cmds>>

\* the loop of validate_nodes is over: the summary is logged
validate_nodes_done ==
    /\ pc = "loop" /\ op = "validate" /\ i > Len(nodes)
    /\ pc' = "done"
    /\ exit_code' = 0
    /\ UNCHANGED <<data, file, prev, node, other_data, result, store, op, nodes, i, success_count,
                   pass_count, conditional_count, fail_count, requests, results,
                   last_resp, last_ret, cmds>>

\* get_node_info: one range request, the document printed or "not found" logged
get_node_info(hostname) ==
    /\ pc = "idle"
    /\ \E outcome \in RangeOutcomes :
         LET payload == get_payload(hostname)
             resp    == EtcdRangeResponse(store, payload, outcome)
             ret     == get_node(hostname, resp)
         IN  /\ requests' = Append(requests, payload)
             /\ last_resp' = resp
             /\ last_ret' = ret
             /\ results' = IF Raised(ret) THEN results
                           ELSE Append(results,
                                  Outcome(ret, IF ret.kind = "None" THEN "NOT_FOUND"
                                               ELSE "FOUND"))
             /\ pc' = IF Raised(ret) THEN "failed" ELSE "done"
             /\ exit_code' = IF Raised(ret) THEN 1 ELSE 0
    /\ op' = "get"
    /\ UNCHANGED <<data, file, prev, node, other_data, result, store, nodes, i, success_count,
                   pass_count, conditional_count, fail_count, cmds>>

(***************************************************************************)
(* The CLI  (node_validator.py): one command per process; the store        *)
(* outlives the process.                                                   *)
(***************************************************************************)
main_put == \E f \in Files : put_nodes(f)

main_validate == \E f \in Files : validate_nodes(f)

main_get == \E hostname \in Hostnames : get_node_info(hostname)

\* main ends before any operation starts: status code, no request
StartupExit(name, code) ==
    /\ pc = "idle"
    /\ pc' = "startup_exit"
    /\ op' = name
    /\ exit_code' = code
    /\ UNCHANGED <<data, file, prev, node, other_data, result, store, nodes, i,
                   success_count, pass_count, conditional_count, fail_count,
                   requests, results, last_resp, last_ret, cmds>>

\* no command given: the help is printed, sys.exit(1)
main_no_action == StartupExit("no_action", 1)

\* --help: argparse prints the help and exits 0
main_help == StartupExit("help", 0)

\* arguments that do not parse: argparse reports the error and exits 2
main_usage_error == StartupExit("usage_error", 2)

\* setup_logging cannot open the log file: the exception is raised outside
\* main's try and ends the process with status 1
main_logging_failed == \E name \in {"put", "get", "validate"} : StartupExit(name, 1)

\* the tool is run again
next_command ==
    /\ pc \in {"done", "failed", "startup_exit"}
    /\ cmds < MaxCommands
    /\ cmds' = cmds + 1
    /\ pc' = "idle"
    /\ op' = "none"
    /\ nodes' = <<>>
    /\ i' = 1
    /\ success_count' = 0
    /\ pass_count' = 0
    /\ conditional_count' = 0
    /\ fail_count' = 0
    /\ requests' = <<>>
    /\ results' = <<>>
    /\ last_resp' = NoResponse
    /\ last_ret' = NoRet
    /\ exit_code' = -1
    /\ file' = NoFile
    /\ other_data' = <<>>
    /\ UNCHANGED <<data, prev, node, result, store>>

\* what other writers may have left under a key
ExternalTexts(key) ==
    CASE key = node_key("1") -> {}
      [] key = node_key("a") ->
            { Text("map", <<<<"gpu_type", "a">>, <<"hostname", "a">>, <<"ip", "a">>>>),
              Text("map", <<<<"hostname", "a">>, <<"ip", "b">>>>),
              Text("bad_utf8", <<>>) }
      [] key = node_key("b") ->
            { Text("map", <<<<"hostname", "b">>, <<"ip", "a">>, <<"rack", "b">>>>),
              Text("int", <<>>) }
      [] OTHER ->
            { Text("map", <<<<"ip", "b">>>>),
              Text("bad_yaml", <<>>) }

AllExternalTexts == UNION {ExternalTexts(k) : k \in StoreKeys}

InitStores ==
    {st \in [StoreKeys -> AllExternalTexts \cup {Absent}] :
        \A k \in StoreKeys : st[k] \in ExternalTexts(k) \cup {Absent}}

EmptyStore == [k \in StoreKeys |-> Absent]

\* no put_nodes run is remembered
NoPrev == [set |-> FALSE, store |-> EmptyStore]

Idle ==
    /\ pc = "idle"
    /\ op = "none"
    /\ nodes = <<>>
    /\ i = 1
    /\ success_count = 0
    /\ pass_count = 0
    /\ conditional_count = 0
    /\ fail_count = 0
    /\ requests = <<>>
    /\ results = <<>>
    /\ last_resp = NoResponse
    /\ last_ret = NoRet
    /\ exit_code = -1
    /\ cmds = 0
    /\ file = NoFile
    /\ prev = NoPrev

Init ==
    /\ Idle
    /\ store \in InitStores
    /\ data = <<>>
    /\ node = Node(<<>>)
    /\ other_data = <<>>
    /\ result = NoResult

Next ==
    \/ main_put
    \/ put_nodes_step
    \/ put_nodes_done
    \/ main_validate
    \/ validate_nodes_step
    \/ validate_nodes_done
    \/ main_get
    \/ main_no_action
    \/ main_help
    \/ main_usage_error
    \/ main_logging_failed
    \/ next_command

Spec == Init /\ [][Next]_vars

\* the commands with the loops scheduled: a started iteration runs to its end
\* (each store request returns) and the interpreter goes on to the next
\* statement; nothing obliges the user to run the tool (again)
Fairness ==
    /\ WF_vars(put_nodes_step)
    /\ WF_vars(put_nodes_done)
    /\ WF_vars(validate_nodes_step)
    /\ WF_vars(validate_nodes_done)

SpecLive == Init /\ [][Next]_vars /\ Fairness

(***************************************************************************)
(* compare_with as a pure function: every declared record against every    *)
(* stored mapping.                                                         *)
(***************************************************************************)
\* every mapping over Keys and Values as get_node returns it: parsed from the
\* text yaml.dump wrote, its items in key order
StoredMappings == {safe_load(yaml_dump(d)).val : d \in Dicts(Cardinality(Keys))}

InitCompare ==
    /\ Idle
    /\ store = EmptyStore
    /\ data \in Dicts(MaxFields)
    /\ node = Node(data)
    /\ other_data \in StoredMappings
    /\ result = NoResult

CompareWith ==
    /\ result = NoResult
    /\ result' = compare_with(node, other_data)
    /\ UNCHANGED <<data, file, prev, node, other_data, store, pc, op, nodes, i, success_count,
                   pass_count, conditional_count, fail_count, requests, results,
                   last_resp, last_ret, exit_code, cmds>>

NextCompare == CompareWith

SpecCompare == InitCompare /\ [][NextCompare]_vars

(***************************************************************************)
(* One Node: constructed from a mapping, then serialized and parsed back,  *)
(* or put to an empty store and fetched by its hostname.                   *)
(***************************************************************************)
InitNode ==
    /\ Idle
    /\ store = EmptyStore
    /\ data \in Mappings(MaxFields)
    /\ node = Node(<<>>)
    /\ other_data = <<>>
    /\ result = NoResult

\* node = Node(data)
NodeConstruct ==
    /\ op = "none"
    /\ op' = "Node"
    /\ node' = Node(data)
    /\ UNCHANGED <<data, file, prev, other_data, result, store, pc, nodes, i, success_count,
                   pass_count, conditional_count, fail_count, requests, results,
                   last_resp, last_ret, exit_code, cmds>>

\* yaml.safe_load(node.to_yaml())
NodeRoundTrip ==
    /\ op = "Node"
    /\ op' = "to_yaml"
    /\ last_ret' = safe_load(to_yaml(node))
    /\ UNCHANGED <<data, file, prev, node, other_data, result, store, pc, nodes, i,
                   success_count, pass_count, conditional_count, fail_count,
                   requests, results, last_resp, exit_code, cmds>>

\* etcd_client.put_node(node)
NodePut ==
    /\ op = "Node"
    /\ op' = "put_node"
    /\ \E outcome \in PutOutcomes :
         LET payload == put_payload(node)
             resp    == EtcdPutResponse(outcome)
             ret     == put_node(node, resp)
         IN  /\ store' = EtcdPutStore(store, payload, outcome)
             /\ requests' = Append(requests, payload)
             /\ last_resp' = resp
             /\ last_ret' = ret
             /\ results' = Append(results,
                    Outcome(ret, IF ret.kind = "True" THEN "STORED" ELSE "FAILED"))
    /\ UNCHANGED <<data, file, prev, node, other_data, result, pc, nodes, i, success_count,
                   pass_count, conditional_count, fail_count, exit_code, cmds>>

\* etcd_client.get_node(node.hostname), right after the put
NodeGet ==
    /\ op = "put_node"
    /\ op' = "get_node"
    /\ \E outcome \in RangeOutcomes :
         LET payload == get_payload(node.hostname)
             resp    == EtcdRangeResponse(store, payload, outcome)
             ret     == get_node(node.hostname, resp)
         IN  /\ requests' = Append(requests, payload)
             /\ last_resp' = resp
             /\ last_ret' = ret
    /\ UNCHANGED <<data, file, prev, node, other_data, result, store, pc, nodes, i,
                   success_count, pass_count, conditional_count, fail_count,
                   results, exit_code, cmds>>

NextNode ==
    \/ NodeConstruct
    \/ NodeRoundTrip
    \/ NodePut
    \/ NodeGet

SpecNode == InitNode /\ [][NextNode]_vars

(***************************************************************************)
(* A batch written by put_nodes and then given to a following command on   *)
(* the same file, with no other writer of the store in between.            *)
(***************************************************************************)
\* put_nodes returned and every put of the batch returned true
AllAccepted ==
    /\ op = "put" /\ pc = "done"
    /\ nodes # <<>>
    /\ Len(results) = Len(nodes)
    /\ \A n \in 1..Len(results) : results[n].ret.kind = "True"

\* node entries of the batches that are written and then read back: those of
\* RecordPool, one with a float NaN, and two whose hostnames are the integer
\* 1 and the str of its digit
SeqRecordPool ==
    RecordPool \cup
    { <<<<"hostname", "b">>, <<"rack", NaN>>>>,
      <<<<"hostname", Int1>>, <<"ip", "a">>>>,
      <<<<"hostname", "1">>, <<"ip", "b">>>> }

SeqFiles == {File("ok", e) : e \in SeqsOver(SeqRecordPool, MaxBatch)}

first_put == prev = NoPrev /\ \E f \in SeqFiles : put_nodes(f)

\* the process of a fully accepted put_nodes has ended; the tool is run again
\* on the same file against the store as that run left it
run_again ==
    /\ AllAccepted
    /\ cmds < MaxCommands
    /\ cmds' = cmds + 1
    /\ prev' = [set |-> TRUE, store |-> store]
    /\ pc' = "idle"
    /\ op' = "none"
    /\ nodes' = <<>>
    /\ i' = 1
    /\ success_count' = 0
    /\ pass_count' = 0
    /\ conditional_count' = 0
    /\ fail_count' = 0
    /\ requests' = <<>>
    /\ results' = <<>>
    /\ last_resp' = NoResponse
    /\ last_ret' = NoRet
    /\ exit_code' = -1
    /\ UNCHANGED <<data, file, node, other_data, result, store>>

put_again == prev.set /\ put_nodes(file)

validate_again == prev.set /\ validate_nodes(file)

NextSeq ==
    \/ first_put
    \/ put_nodes_step
    \/ put_nodes_done
    \/ run_again
    \/ put_again
    \/ validate_again
    \/ validate_nodes_step
    \/ validate_nodes_done

\* the sequences start from the stores in which other writers have left
\* nothing under the key of the records without a hostname
InitSeq == Init /\ store[node_key("")] = Absent

SpecSeq == InitSeq /\ [][NextSeq]_vars

(***************************************************************************)
(* Properties of compare_with  (checked under SpecCompare)                 *)
(***************************************************************************)
Compared == result # NoResult

Items == node.raw_data

\* some declared key is stored with another value
HasMismatch(items, other) ==
    \E n \in 1..Len(items) :
        HasKey(other, items[n][1]) /\ ~PyEq(Lookup(other, items[n][1]), items[n][2])

\* some declared key is not stored
HasMissing(items, other) ==
    \E n \in 1..Len(items) : ~HasKey(other, items[n][1])

\* the declared keys that are not stored, in declared order
MissingKeys(items, other) ==
    LET sel == SelectSeq(items, LAMBDA it : ~HasKey(other, it[1]))
    IN  [n \in 1..Len(sel) |-> sel[n][1]]

\* (key, declared, stored) of the declared keys stored with another value
Mismatches(items, other) ==
    LET sel == SelectSeq(items,
                   LAMBDA it : HasKey(other, it[1]) /\ ~PyEq(Lookup(other, it[1]), it[2]))
    IN  [n \in 1..Len(sel) |-> <<sel[n][1], sel[n][2], Lookup(other, sel[n][1])>>]

\* C1: compare_with returns FAIL if and only if some key present in both the
\* record and the stored mapping has unequal values, whatever keys are missing
\* and whatever the order of the record's keys.
C1_FailIffMismatch ==
    Compared => (result.status = "FAIL" <=> HasMismatch(Items, other_data))

\* C2: compare_with returns CONDITIONAL exactly when some declared key is
\* missing from the stored mapping and no shared key has unequal values; it
\* then returns no value mismatch and exactly the missing keys, in the
\* record's key order.
C2_ConditionalIffMissingOnly ==
    Compared =>
        /\ result.status = "CONDITIONAL" <=>
               (HasMissing(Items, other_data) /\ ~HasMismatch(Items, other_data))
        /\ result.status = "CONDITIONAL" =>
               /\ result.value_mismatches = <<>>
               /\ result.extra_keys = MissingKeys(Items, other_data)

\* C3: compare_with returns PASS if and only if every declared key is stored
\* with an equal value, and then both evidence lists are empty.
C3_PassIffAllEqual ==
    Compared =>
        /\ result.status = "PASS" <=>
               \A n \in 1..Len(Items) :
                   /\ HasKey(other_data, Items[n][1])
                   /\ PyEq(Lookup(other_data, Items[n][1]), Items[n][2])
        /\ result.status = "PASS" =>
               result.extra_keys = <<>> /\ result.value_mismatches = <<>>

C3_Witness ==
    /\ Compared
    /\ result.status = "PASS"
    /\ Len(Items) >= 2
    /\ Len(other_data) > Len(Items)

\* C4: every declared key is checked whatever the status reached so far:
\* extra_keys is exactly the declared keys that are not stored and
\* value_mismatches exactly the (key, declared, stored) triples of the declared
\* keys stored with another value, both in declared order; a key is in at most
\* one list, at most once, and a key with equal values is in neither.
C4_EvidenceComplete ==
    Compared =>
        /\ result.extra_keys = MissingKeys(Items, other_data)
        /\ result.value_mismatches = Mismatches(Items, other_data)
        /\ \A n \in 1..Len(Items) :
             LET k == Items[n][1]
                 inExtra == {m \in 1..Len(result.extra_keys) : result.extra_keys[m] = k}
                 inMism  == {m \in 1..Len(result.value_mismatches) :
                                result.value_mismatches[m][1] = k}
             IN  /\ Cardinality(inExtra) + Cardinality(inMism) <= 1
                 /\ (HasKey(other_data, k) /\ PyEq(Lookup(other_data, k), Items[n][2]))
                        => (inExtra = {} /\ inMism = {})

\* a mismatch is recorded after the status has become FAIL, and a missing key too
C4_Witness ==
    /\ Compared
    /\ Len(Items) = 3
    /\ HasKey(other_data, Items[1][1]) /\ ~PyEq(Lookup(other_data, Items[1][1]), Items[1][2])
    /\ Len(result.value_mismatches) = 2
    /\ Len(result.extra_keys) = 1

\* other and other2 hold the same keys and values as far as the node declares
AgreeOnDeclared(items, other, other2) ==
    \A n \in 1..Len(items) :
        /\ HasKey(other, items[n][1]) <=> HasKey(other2, items[n][1])
        /\ HasKey(other, items[n][1]) =>
               Lookup(other, items[n][1]) = Lookup(other2, items[n][1])

\* C5: the comparison is one-directional: stored mappings that agree on every
\* declared key give the same status, extra_keys and value_mismatches, whatever
\* undeclared keys they hold.
C5_OneDirectional ==
    Compared =>
        \A other2 \in StoredMappings :
            AgreeOnDeclared(Items, other_data, other2) =>
                compare_with(node, other2) = result

C5_Witness ==
    /\ Compared
    /\ result.status = "FAIL"
    /\ \E k \in DictKeys(other_data) : k \notin DictKeys(Items)
    /\ \E other2 \in StoredMappings :
          /\ AgreeOnDeclared(Items, other_data, other2)
          /\ DictKeys(other2) # DictKeys(other_data)

(***************************************************************************)
(* Properties of the commands  (checked under Spec)                        *)
(***************************************************************************)
\* the most recent store request of the running command
LastRequest == requests[Len(requests)]

\* the status the comparison contract gives a record against what get returned
ContractStatus(nd, ret) ==
    IF ret.kind = "None" THEN "NOT_FOUND"
    ELSE IF HasMismatch(nd.raw_data, ret.val) THEN "FAIL"
    ELSE IF HasMissing(nd.raw_data, ret.val) THEN "CONDITIONAL"
    ELSE "PASS"

CountStatus(statuses) ==
    Cardinality({n \in 1..Len(results) : results[n].status \in statuses})

\* C6: a completed validate_nodes has counted each record exactly once: FAIL
\* when get returned NotFound or the stored document has a value mismatch,
\* CONDITIONAL when it is found with missing keys and no mismatch, PASS when
\* every declared key is equal; the three tallies add up to the batch size.
C6_ValidateTally ==
    (op = "validate" /\ pc = "done") =>
        /\ Len(results) = Len(nodes)
        /\ pass_count + conditional_count + fail_count = Len(nodes)
        /\ \A n \in 1..Len(results) :
               results[n].status = ContractStatus(nodes[n], results[n].ret)
        /\ pass_count = CountStatus({"PASS"})
        /\ conditional_count = CountStatus({"CONDITIONAL"})
        /\ fail_count = CountStatus({"FAIL", "NOT_FOUND"})

\* C7: validate_nodes and get_node_info never change the store: no step of
\* either changes the value of any key, and neither issues a put request.
C7_ReadOnly ==
    [][op' \in {"validate", "get"} =>
          /\ store' = store
          /\ \A n \in 1..Len(requests') : requests'[n].url # "/v3/kv/put"]_vars

C7_Witness ==
    /\ op = "validate" /\ pc = "done"
    /\ Len(requests) = 2
    /\ pass_count = 1
    /\ fail_count = 1
    /\ \E k \in StoreKeys : store[k] # Absent

\* record n of the batch was stored and no later record replaced it
LastWriter(n) ==
    /\ results[n].ret.kind = "True"
    /\ \A m \in (n + 1)..Len(results) :
           results[m].ret.kind = "True" => nodes[m].hostname # nodes[n].hostname

\* what the key of record n may hold once record n was stored: its own
\* serialization, or that of a later record with the same hostname whose put
\* returned false (the store may have applied it and its answer been lost)
Survivors(n) ==
    {to_yaml(nodes[m]) : m \in {l \in n..Len(nodes) :
        /\ nodes[l].hostname = nodes[n].hostname
        /\ l = n \/ results[l].ret.kind = "False"}}

\* C8: put_nodes does not abort on a failed put: when it returns, a put was
\* attempted for every record of the batch, in order, the success count is the
\* number of puts that returned true, and nothing is rolled back: the key of a
\* stored record holds that record unless a later put to the same key was
\* applied, be it one that returned false because its answer was lost.
C8_PutContinuesNoRollback ==
    (op = "put" /\ pc = "done") =>
        /\ Len(requests) = Len(nodes)
        /\ Len(results) = Len(nodes)
        /\ \A n \in 1..Len(nodes) : requests[n] = put_payload(nodes[n])
        /\ success_count =
               Cardinality({n \in 1..Len(results) : results[n].ret.kind = "True"})
        /\ \A n \in 1..Len(results) :
               LastWriter(n) => store[node_key(nodes[n].hostname)] \in Survivors(n)

\* C8 as stated: put_nodes does not abort on a failed put: a put is attempted
\* for every record, the success count is the number of puts that returned
\* true, and records written before a failure stay written.
C8_PutContinues ==
    (op = "put" /\ pc = "done") =>
        /\ Len(requests) = Len(nodes)
        /\ Len(results) = Len(nodes)
        /\ \A n \in 1..Len(nodes) : requests[n] = put_payload(nodes[n])
        /\ success_count =
               Cardinality({n \in 1..Len(results) : results[n].ret.kind = "True"})
        /\ \A n \in 1..Len(results) :
               LastWriter(n) => store[node_key(nodes[n].hostname)] = to_yaml(nodes[n])

\* the first put failed, the second was attempted and stored
C8_Witness ==
    /\ op = "put" /\ pc = "done"
    /\ Len(nodes) = 2
    /\ results[1].ret.kind = "False"
    /\ results[2].ret.kind = "True"
    /\ success_count = 1

\* the response carries no document: transport error, status other than 200,
\* no kvs, or a value that does not decode and parse to a mapping
NoDocument(resp) ==
    \/ resp.exc
    \/ resp.status_code # 200
    \/ resp.kvs \in {"missing", "empty"}
    \/ ~resp.value.valid
    \/ resp.value.s.kind # "map"

\* C9: get_node never lets an error escape: whenever the response carries no
\* document it returns None, whatever the cause.
C9_GetNodeNeverRaises ==
    (requests # <<>> /\ LastRequest.url = "/v3/kv/range") =>
        /\ ~Raised(last_ret)
        /\ NoDocument(last_resp) => last_ret.kind = "None"

\* C10: put_node returns true exactly when the put request was answered with
\* status 200, and false, without raising, otherwise.
C10_PutNodeTrueIff200 ==
    (requests # <<>> /\ LastRequest.url = "/v3/kv/put") =>
        /\ last_ret.kind \in {"True", "False"}
        /\ last_ret.kind = "True" <=> (~last_resp.exc /\ last_resp.status_code = 200)

\* the transport raised and put_node returned false
C10_Witness ==
    /\ requests # <<>> /\ LastRequest.url = "/v3/kv/put"
    /\ last_resp.exc
    /\ last_ret.kind = "False"
    /\ Len(results) = Len(requests)

\* the batch loader could not produce records: file missing or document malformed
LoaderFailed == file.kind \in {"missing", "malformed"}

\* C11: when the batch loader cannot produce records (file missing or document
\* malformed), put_nodes and validate_nodes issue no store request at all:
\* the batch is empty, nothing is written, nothing is fetched or compared.
C11_LoaderFailureNoRequest ==
    (op \in {"put", "validate"} /\ LoaderFailed) =>
        /\ nodes = <<>>
        /\ pc = "done"
        /\ requests = <<>>
        /\ results = <<>>
        /\ last_resp = NoResponse
        /\ success_count = 0
        /\ pass_count + conditional_count + fail_count = 0

\* validate on a malformed file returned at once, over a store that holds documents
C11_Witness ==
    /\ op = "validate" /\ file.kind = "malformed"
    /\ pc = "done"
    /\ requests = <<>>
    /\ \E k \in StoreKeys : store[k] # Absent

\* the process has ended
Exited == pc \in {"done", "failed", "startup_exit"}

\* C12: a batch-loader failure (missing file or unparsable document) during
\* the put or validate command ends the process with a non-zero exit status.
C12_LoaderFailureExitsNonZero ==
    (op \in {"put", "validate"} /\ LoaderFailed /\ Exited) => exit_code = 1

\* an exception escaped the operation of the running command
Escaped ==
    \/ op \in {"put", "validate"} /\ LoadRaises(file)
    \/ Raised(last_ret)
    \/ /\ op = "validate" /\ i <= Len(nodes)
       /\ last_ret.kind \notin {"none", "None"}
       /\ compare_stored(nodes[i], last_ret).status = "TypeError"

\* the process ran one of the three commands
RanCommand == Exited /\ op \in {"put", "get", "validate"}

\* C13 as stated: each of the three commands exits with status zero whenever
\* the operation runs to completion, whatever the per-record outcomes, and
\* exits non-zero exactly when an exception escapes the operation.
C13_ExitStatus ==
    /\ ~Exited => exit_code = -1
    /\ RanCommand =>
          /\ exit_code \in {0, 1}
          /\ exit_code = 1 <=> Escaped
          /\ exit_code = 0 <=> pc = "done"
          /\ (pc = "done" /\ op \in {"put", "validate"}) => Len(results) = Len(nodes)

\* C13: each of the three commands exits with status zero whenever the
\* operation runs to completion, whatever the per-record outcomes (failed
\* puts, NotFound, CONDITIONAL or FAIL records), and exits non-zero exactly
\* when an exception escapes the operation or the process ends before the
\* operation starts (the log file cannot be opened), in which case no store
\* request was made.
C13_ExitStatusOnceStarted ==
    /\ ~Exited => exit_code = -1
    /\ RanCommand =>
          /\ exit_code \in {0, 1}
          /\ exit_code = 1 <=> (Escaped \/ pc = "startup_exit")
          /\ exit_code = 0 <=> pc = "done"
          /\ pc = "startup_exit" => (requests = <<>> /\ ~Escaped)
          /\ pc = "failed" => Escaped
          /\ (pc = "done" /\ op \in {"put", "validate"}) => Len(results) = Len(nodes)

\* a validation with a NotFound record and a CONDITIONAL record exited zero
C13_Witness ==
    /\ op = "validate" /\ pc = "done"
    /\ fail_count = 1
    /\ conditional_count = 1
    /\ exit_code = 0

\* C15: put is an unconditional whole-key overwrite: every put sends the key
\* "/gpu/nodes/"+h, h the record's hostname (the empty string when the record
\* has none), and changes no other key; a put that returns true leaves the
\* serialized record under that key, whatever the key held; a put that was
\* answered with another status changes nothing; a put whose transport raised
\* returns false and either changed nothing or left the serialized record
\* under the key.
C15_PutOverwritesApplied ==
    [][(op = "put" /\ pc = "loop" /\ requests' # requests) =>
          LET nd      == nodes[i]
              key     == "/gpu/nodes/" \o DictGet(nd.raw_data, "hostname", "")
              written == [store EXCEPT ![key] = yaml_dump(nd.raw_data)]
          IN  /\ Len(requests') = Len(requests) + 1
              /\ requests'[Len(requests')].url = "/v3/kv/put"
              /\ requests'[Len(requests')].key.s = key
              /\ last_ret'.kind = "True" => store' = written
              /\ (last_ret'.kind # "True" /\ ~last_resp'.exc) => store' = store
              /\ last_resp'.exc =>
                    (last_ret'.kind = "False" /\ store' \in {store, written})]_vars

\* C15 as stated: a put that returns true
\* leaves under "/gpu/nodes/"+h, h the record's hostname (the empty string
\* when the record has none), the serialized record, whatever the key held,
\* and leaves every other key as it was; a put that returns false changes no
\* key.  Two records of one batch with the same hostname write the same key,
\* so only the later one survives.
C15_PutOverwrites ==
    [][(op = "put" /\ pc = "loop" /\ requests' # requests) =>
          LET nd  == nodes[i]
              key == "/gpu/nodes/" \o DictGet(nd.raw_data, "hostname", "")
          IN  /\ Len(requests') = Len(requests) + 1
              /\ requests'[Len(requests')].url = "/v3/kv/put"
              /\ requests'[Len(requests')].key.s = key
              /\ IF last_ret'.kind = "True"
                 THEN store' = [store EXCEPT ![key] = yaml_dump(nd.raw_data)]
                 ELSE store' = store]_vars

\* two records without a hostname were both stored: the key of the empty
\* hostname holds the later one, the other keys what they held
C15_Witness ==
    /\ AllAccepted
    /\ Len(nodes) = 2
    /\ ~HasKey(nodes[1].raw_data, "hostname") /\ ~HasKey(nodes[2].raw_data, "hostname")
    /\ to_yaml(nodes[1]) # to_yaml(nodes[2])
    /\ store[node_key("")] = to_yaml(nodes[2])
    /\ store[node_key("a")] = Text("bad_utf8", <<>>)
    /\ store[node_key("b")] = Text("int", <<>>)

BatchRequest(n) ==
    IF op = "put" THEN put_payload(nodes[n]) ELSE get_payload(nodes[n].hostname)

\* C19: each batch operation (put_nodes, validate_nodes) issues exactly one
\* store request per record of the batch, in input order and one at a time; a
\* failed put or a NotFound get is never retried, so the number of store
\* requests equals the batch size whatever the outcomes.
C19_OneRequestPerRecord ==
    op \in {"put", "validate"} =>
        /\ Len(requests) <= Len(nodes)
        /\ \A n \in 1..Len(requests) : requests[n] = BatchRequest(n)
        /\ pc = "loop" => Len(requests) = i - 1
        /\ Exited => Len(requests) = Len(nodes)

(***************************************************************************)
(* Properties of one Node  (checked under SpecNode)                        *)
(***************************************************************************)
\* the serialized record parses back to a mapping equal to the one given at
\* construction
ParsesBack == last_ret.kind = "dict" /\ DictEq(last_ret.val, data)

\* get_node followed a put_node of the same record that returned true
GetAfterStoredPut ==
    /\ op = "get_node"
    /\ results[1].ret.kind = "True"

\* the range request was answered with status 200
RangeAnswered(resp) == ~resp.exc /\ resp.status_code = 200

\* no value of m is a float NaN other than the loader's own object (a NaN
\* is unequal to every other object), or of a type only Python has (a
\* tuple), which yaml.safe_load refuses to build
SafeSelfEqual(m) == \A n \in 1..Len(m) : m[n][2] \notin {CallerNaN, Tuple}

\* no value of m is a float NaN
NoNaN(m) == \A n \in 1..Len(m) : m[n][2] \notin NaNs

\* C16 as stated: serialization is lossless over the canonical mapping (for
\* every mapping m, to_yaml parses back to a mapping equal to m and to_dict
\* returns m), and consequently a successful put of R followed by get of R's
\* hostname returns a document equal to R's canonical mapping.
C16_RoundTripAnyGet ==
    /\ op # "none" => to_dict(node) = data
    /\ op = "to_yaml" => ParsesBack
    /\ GetAfterStoredPut => ParsesBack

\* C16: to_dict() returns the mapping m given at construction, for every m,
\* keys outside the typed fields included.  For every m whose values are
\* what yaml.safe_load builds (strs, a digit str included, ints, and the
\* loader's own NaN object; not a NaN that is another object, not a tuple),
\* Node(m).to_yaml() parses back to a mapping equal to m, and a successful
\* put of the record followed by a get of its hostname whose range request is
\* answered with status 200 returns a document equal to m.  A NaN that is
\* another object parses back unequal; a tuple value makes safe_load raise,
\* and the get return None.
C16_RoundTripSafeAnswered ==
    /\ op # "none" => to_dict(node) = data
    /\ (op = "to_yaml" /\ SafeSelfEqual(data)) => ParsesBack
    /\ (GetAfterStoredPut /\ RangeAnswered(last_resp) /\ SafeSelfEqual(data)) =>
          ParsesBack
    /\ (op = "to_yaml" /\ ~SafeSelfEqual(data)) => ~ParsesBack
    /\ (GetAfterStoredPut /\ HasKey(data, "rack") /\ Lookup(data, "rack") = Tuple) =>
          last_ret.kind = "None"

\* a record with a digit-str hostname and a key outside the typed fields,
\* declared out of key order, was stored and fetched
C16_Witness ==
    /\ GetAfterStoredPut /\ RangeAnswered(last_resp)
    /\ Len(data) = 3
    /\ HasKey(data, "rack") /\ HasKey(data, "hostname")
    /\ Lookup(data, "hostname") = "1"
    /\ store[node_key("1")] = Text("map", <<<<"hostname", "'1'">>, <<"ip", "a">>,
                                             <<"rack", "b">>>>)
    /\ last_ret.kind = "dict"
    /\ last_ret.val # data
    /\ SafeSelfEqual(data)

\* the well-known string fields, and all the attributes of a Node
StringFields == {"hostname", "ip", "gpu_type", "bios_version", "nvidia_driver",
                 "cuda_version", "os", "kernel"}

NodeAttributes == StringFields \cup {"secure_boot", "monitoring_enabled", "tags",
                                     "raw_data"}

\* C18: constructing a Node from any mapping never fails and fills every
\* well-known field missing from the mapping with its default: the empty
\* string for the string fields, false for secure_boot and
\* monitoring_enabled, an empty list for tags; a field present in the mapping
\* keeps the mapping's value, and the canonical mapping gains no defaulted key.
C18_NodeDefaults ==
    op # "none" =>
        /\ DOMAIN node = NodeAttributes
        /\ \A f \in StringFields :
               node[f] = IF HasKey(data, f) THEN Lookup(data, f) ELSE ""
        /\ node.secure_boot = FALSE
        /\ node.monitoring_enabled = FALSE
        /\ node.tags = <<>>
        /\ node.raw_data = data
        /\ DictKeys(to_dict(node)) = DictKeys(data)

\* a mapping with ip and a key outside the typed fields, without hostname
C18_Witness ==
    /\ op = "Node"
    /\ HasKey(data, "ip") /\ HasKey(data, "rack")
    /\ ~HasKey(data, "hostname") /\ ~HasKey(data, "gpu_type")
    /\ node.hostname = "" /\ node.gpu_type = ""
    /\ node.ip = Lookup(data, "ip")

(***************************************************************************)
(* Properties of command sequences  (checked under SpecSeq)                *)
(***************************************************************************)
\* the last record of the batch written under the key of record n
LastSame(n) ==
    CHOOSE m \in n..Len(nodes) :
        /\ node_key(nodes[m].hostname) = node_key(nodes[n].hostname)
        /\ \A l \in (m + 1)..Len(nodes) :
               node_key(nodes[l].hostname) # node_key(nodes[n].hostname)

\* C14: calling put_nodes twice with the same batch against the same store
\* (every put accepted) leaves the store in the same final state as calling it
\* once: each key holds one whole record and nothing accumulates.
C14_PutTwiceSameStore ==
    (prev.set /\ AllAccepted) =>
        /\ store = prev.store
        /\ \A n \in 1..Len(nodes) :
               store[node_key(nodes[n].hostname)] = to_yaml(nodes[LastSame(n)])

\* the second run wrote two different records under one key
C14_Witness ==
    /\ prev.set /\ AllAccepted
    /\ Len(nodes) = 2
    /\ nodes[1].hostname = nodes[2].hostname
    /\ to_yaml(nodes[1]) # to_yaml(nodes[2])
    /\ \E k \in StoreKeys : store[k] # Absent /\ k # node_key(nodes[1].hostname)

\* the records of the batch have pairwise distinct hostnames (the integer 1
\* and the str "1" are distinct)
DistinctHostnames ==
    \A m, n \in 1..Len(nodes) : nodes[m].hostname = nodes[n].hostname => m = n

\* the records of the batch are stored under pairwise distinct keys
DistinctKeys ==
    \A m, n \in 1..Len(nodes) :
        node_key(nodes[m].hostname) = node_key(nodes[n].hostname) => m = n

\* validate_nodes runs on the batch a fully accepted put_nodes has just written
ValidateAfterPut ==
    /\ prev.set
    /\ op = "validate"

Expected(n, answered) ==
    IF ~answered THEN "NOT_FOUND"
    ELSE IF NoNaN(nodes[n].raw_data) THEN "PASS"
    ELSE "FAIL"

SinglePassDone ==
    /\ pc = "done"
    /\ Len(requests) = Len(nodes)
    /\ Len(results) = Len(nodes)

\* C21: every batch operation is a single pass that terminates: provided each
\* store request eventually returns, put_nodes and validate_nodes finish after
\* processing each record of the batch once and then emit the aggregate
\* summary; no per-record outcome makes the loop repeat or stop early.
C21_SinglePassTerminates ==
    (op \in {"put", "validate"} /\ pc = "loop") ~> SinglePassDone

TypeOK ==
    /\ pc \in {"idle", "loop", "done", "failed", "startup_exit"}
    /\ op \in {"none", "put", "validate", "get", "no_action", "help", "usage_error",
              "Node", "to_yaml", "put_node", "get_node"}
    /\ i \in 1..(Len(nodes) + 1)
    /\ exit_code \in {-1, 0, 1, 2}

====
